---- MODULE Spec2Model ----
(***************************************************************************)
(* Model of the kekeke ledger replayer: the Payments engine               *)
(* (src/src/payments.rs), the Account record (src/src/account.rs) and the *)
(* Action / Transaction types (src/src/transaction.rs).                   *)
(*                                                                         *)
(* Balances are rust_decimal::Decimal values.  They are counted here in   *)
(* units of the smallest fraction of the feed, so that +, - and the       *)
(* comparisons are integer operations; the mantissa is fixed-width, and   *)
(* += / -= / - on Decimal panic when the result leaves [-MAX, MAX].       *)
(***************************************************************************)
EXTENDS Integers, FiniteSets, Sequences, TLC

\* ------------------------------------------------------------------ bounds
MaxClient == 1
MaxTid == 2
MaxAmount == 2
MaxSteps == 4
\* the amounts of the generated records are multiples of this one
AmountUnit == 50
\* Decimal::MAX, scaled down so that the overflow of a balance is reachable
DecimalMax == 200

Clients == 0..MaxClient
Tids == 0..MaxTid
Amounts == {AmountUnit * k : k \in 1..MaxAmount}

\* --------------------------------------------------------------- the types
\* TransactionKind (amount is 0 for the three kinds that carry none)
Deposit == "Deposit"
Withdrawal == "Withdrawal"
Dispute == "Dispute"
Resolve == "Resolve"
Chargeback == "Chargeback"

\* ActionStatus
Fresh == "Fresh"
Disputed == "Disputed"
Final == "Final"

Transaction(kind, cid, tid, amount) ==
    [kind |-> kind, cid |-> cid, tid |-> tid, amount |-> amount]

\* Action { cid, kind: ActionKind::{Deposit,Withdrawal} { amount }, status }
Action(cid, kind, amount, status) ==
    [cid |-> cid, kind |-> kind, amount |-> amount, status |-> status]

\* Account::default()
DefaultAccount ==
    [total |-> 0, held |-> 0, is_locked |-> FALSE, has_activity |-> FALSE]

\* vec![Account::default(); n]: a table of n zeroed accounts, indexed from 0
AccountTable(n) == [c \in 0..(n - 1) |-> DefaultAccount]

\* mutant: the table is one entry short (u16::MAX as usize, without the + 1)
DefaultPayments_OneShort ==
    [accounts |-> AccountTable(MaxClient),
     actions |-> << >>,
     panicked |-> FALSE]

\* Payments::default(): every account zeroed, the action map empty; MaxClient
\* stands for u16::MAX, so the table has u16::MAX as usize + 1 entries
DefaultPayments ==
    [accounts |-> AccountTable(MaxClient + 1),
     actions |-> << >>,
     panicked |-> FALSE]

\* get_unchecked_mut(cid as usize) stays inside the table
IndexInTable(table, cid) == cid \in DOMAIN table

\* ------------------------------------------------------- Decimal arithmetic
\* checked_add / checked_sub return None outside [-MAX, MAX]; the operators
\* +=, -= and - panic on None.
Overflowed(x) == x > DecimalMax \/ x < -DecimalMax

\* Account::get_available; the subtraction may overflow
get_available(account) == account.total - account.held

\* mutant: the first entry of a key is kept (entry(key).or_insert(value))
Insert_KeepsFirst(map, key, value) ==
    IF key \in DOMAIN map THEN map
    ELSE [k \in DOMAIN map \cup {key} |-> IF k = key THEN value ELSE map[k]]

\* HashMap::insert: adds the key or replaces the value stored under it
Insert(map, key, value) ==
    [k \in (DOMAIN map) \cup {key} |-> IF k = key THEN value ELSE map[k]]

\* the process aborts: the unwinding leaves what was written so far
Panic(p) == [p EXCEPT !.panicked = TRUE]

\* mutant: the amount is assigned to total, not added to it
AddTotal_Assign(p, cid, amount) ==
    IF p.panicked THEN p
    ELSE IF Overflowed(amount) THEN Panic(p)
    ELSE [p EXCEPT !.accounts[cid].total = amount]

\* account.total += amount
AddTotal(p, cid, amount) ==
    IF p.panicked THEN p
    ELSE IF Overflowed(p.accounts[cid].total + amount) THEN Panic(p)
    ELSE [p EXCEPT !.accounts[cid].total = @ + amount]

\* account.total -= amount
SubTotal(p, cid, amount) ==
    IF p.panicked THEN p
    ELSE IF Overflowed(p.accounts[cid].total - amount) THEN Panic(p)
    ELSE [p EXCEPT !.accounts[cid].total = @ - amount]

\* account.held += amount
AddHeld(p, cid, amount) ==
    IF p.panicked THEN p
    ELSE IF Overflowed(p.accounts[cid].held + amount) THEN Panic(p)
    ELSE [p EXCEPT !.accounts[cid].held = @ + amount]

\* mutant: the held funds are not released
SubHeld_Skip(p, cid, amount) == p

\* account.held -= amount
SubHeld(p, cid, amount) ==
    IF p.panicked THEN p
    ELSE IF Overflowed(p.accounts[cid].held - amount) THEN Panic(p)
    ELSE [p EXCEPT !.accounts[cid].held = @ - amount]

\* mutant: one flag locks the whole table
Lock_Everyone(p, cid) ==
    IF p.panicked THEN p
    ELSE [p EXCEPT !.accounts =
              [c \in DOMAIN @ |-> [@[c] EXCEPT !.is_locked = TRUE]]]

\* mutant: the chargeback leaves the account unlocked
Lock_Skip(p, cid) == p

\* account.is_locked = true
Lock(p, cid) ==
    IF p.panicked THEN p ELSE [p EXCEPT !.accounts[cid].is_locked = TRUE]

\* mutant: the status is written to every action of the same owner
SetStatus_AllOfOwner(p, tid, status) ==
    [p EXCEPT !.actions =
        [t \in DOMAIN @ |-> IF @[t].cid = @[tid].cid
                            THEN [@[t] EXCEPT !.status = status]
                            ELSE @[t]]]

\* action.status = status
SetStatus(p, tid, status) == [p EXCEPT !.actions[tid].status = status]

\* ------------------------------------------------- Payments::process_transaction
\* mutant: the early return is missing
IsLocked_Never(account) == FALSE

\* the early return on a locked account
IsLocked(account) == account.is_locked

\* TransactionKind::Deposit { amount }
DepositArm(p, tx) ==
    LET p1 == AddTotal(p, tx.cid, tx.amount) IN
    IF p1.panicked THEN p1
    ELSE [p1 EXCEPT !.actions =
              Insert(@, tx.tid, Action(tx.cid, Deposit, tx.amount, Fresh))]

\* mutant: a withdrawal of the whole available balance is refused
HasFunds_Strict(account, amount) == get_available(account) > amount

\* mutant: the held funds are not taken off
HasFunds_TotalOnly(account, amount) == account.total >= amount

\* the guard of the withdrawal
HasFunds(account, amount) == get_available(account) >= amount

\* mutant: the refused withdrawal is recorded all the same
Refuse_Records(p, tx) ==
    [p EXCEPT !.actions =
         Insert(@, tx.tid, Action(tx.cid, Withdrawal, tx.amount, Fresh))]

\* the if of the withdrawal has no else: nothing is done
Refuse(p, tx) == p

\* TransactionKind::Withdrawal { amount }
WithdrawalArm(p, tx) ==
    IF Overflowed(get_available(p.accounts[tx.cid])) THEN Panic(p)
    ELSE IF HasFunds(p.accounts[tx.cid], tx.amount)
    THEN LET p1 == SubTotal(p, tx.cid, tx.amount) IN
         IF p1.panicked THEN p1
         ELSE [p1 EXCEPT !.actions =
                   Insert(@, tx.tid, Action(tx.cid, Withdrawal, tx.amount, Fresh))]
    ELSE Refuse(p, tx)

\* mutant: the status is not looked at, any action can be disputed
CanDispute_Always(action) == TRUE

\* the guard of a dispute
CanDispute(action) == action.status = Fresh

\* mutant: only a Final action is refused, a Fresh one can be resolved
CanResolve_NotFinal(action) == action.status # Final

\* the guard of a resolve
CanResolve(action) == action.status = Disputed

\* the guard of a chargeback
CanChargeback(action) == action.status = Disputed

\* mutant: the Deposit arm credits total as the Withdrawal arm does
DisputeArm_BothCredit(p, tx) ==
    LET action == p.actions[tx.tid] IN
    IF ~CanDispute(action) THEN p
    ELSE LET p1 == SetStatus(p, tx.tid, Disputed) IN
         AddHeld(AddTotal(p1, tx.cid, action.amount), tx.cid, action.amount)

\* mutant: the Withdrawal arm freezes the amount without crediting total
DisputeArm_HeldOnly(p, tx) ==
    LET action == p.actions[tx.tid] IN
    IF ~CanDispute(action) THEN p
    ELSE LET p1 == SetStatus(p, tx.tid, Disputed) IN
         AddHeld(p1, tx.cid, action.amount)

\* mutant: the Withdrawal arm credits total without freezing the amount
DisputeArm_TotalOnly(p, tx) ==
    LET action == p.actions[tx.tid] IN
    IF ~CanDispute(action) THEN p
    ELSE LET p1 == SetStatus(p, tx.tid, Disputed) IN
         IF action.kind = Withdrawal
         THEN AddTotal(p1, tx.cid, action.amount)
         ELSE AddHeld(p1, tx.cid, action.amount)

\* TransactionKind::Dispute, the action found and owned by the sender
DisputeArm(p, tx) ==
    LET action == p.actions[tx.tid] IN
    IF ~CanDispute(action) THEN p
    ELSE LET p1 == SetStatus(p, tx.tid, Disputed) IN
         IF action.kind = Withdrawal
         THEN AddHeld(AddTotal(p1, tx.cid, action.amount), tx.cid, action.amount)
         ELSE AddHeld(p1, tx.cid, action.amount)

\* mutant: the two arms are swapped
ResolveArm_Swapped(p, tx) ==
    LET action == p.actions[tx.tid] IN
    IF ~CanResolve(action) THEN p
    ELSE LET p1 == SetStatus(p, tx.tid, Final) IN
         IF action.kind = Deposit
         THEN SubHeld(p1, tx.cid, action.amount)
         ELSE SubHeld(SubTotal(p1, tx.cid, action.amount), tx.cid, action.amount)

\* mutant: the Deposit arm releases the held funds and keeps total
ResolveArm_KeepsTotal(p, tx) ==
    LET action == p.actions[tx.tid] IN
    IF ~CanResolve(action) THEN p
    ELSE LET p1 == SetStatus(p, tx.tid, Final) IN
         SubHeld(p1, tx.cid, action.amount)

\* TransactionKind::Resolve, the action found and owned by the sender
ResolveArm(p, tx) ==
    LET action == p.actions[tx.tid] IN
    IF ~CanResolve(action) THEN p
    ELSE LET p1 == SetStatus(p, tx.tid, Final) IN
         IF action.kind = Withdrawal
         THEN SubHeld(p1, tx.cid, action.amount)
         ELSE SubHeld(SubTotal(p1, tx.cid, action.amount), tx.cid, action.amount)

\* mutant: the Withdrawal arm releases the held funds and keeps total
ChargebackArm_KeepsTotal(p, tx) ==
    LET action == p.actions[tx.tid] IN
    IF ~CanChargeback(action) THEN p
    ELSE LET p1 == SetStatus(p, tx.tid, Final) IN
         Lock(SubHeld(p1, tx.cid, action.amount), tx.cid)

\* TransactionKind::Chargeback, the action found and owned by the sender
ChargebackArm(p, tx) ==
    LET action == p.actions[tx.tid] IN
    IF ~CanChargeback(action) THEN p
    ELSE LET p1 == SetStatus(p, tx.tid, Final) IN
         IF action.kind = Withdrawal
         THEN Lock(SubTotal(SubHeld(p1, tx.cid, action.amount),
                            tx.cid, action.amount), tx.cid)
         ELSE Lock(SubHeld(p1, tx.cid, action.amount), tx.cid)

\* mutant: the owner of the action is not compared with the sender
OwnsAction_AnyClient(p, tx) == tx.tid \in DOMAIN p.actions

\* the lookup of the action and the ownership check
OwnsAction(p, tx) ==
    /\ tx.tid \in DOMAIN p.actions
    /\ p.actions[tx.tid].cid = tx.cid

\* mutant: a correction of an unknown tid is kept for the record to come
Discard_Remembers(p, tx) ==
    IF tx.tid \in DOMAIN p.actions THEN p
    ELSE [p EXCEPT !.actions =
              Insert(@, tx.tid, Action(tx.cid, Deposit, 0, Disputed))]

\* else { return; } and return: the record is dropped, nothing is kept
Discard(p, tx) == p

\* the arm shared by Dispute | Resolve | Chargeback
CorrectionArm(p, tx) ==
    IF ~OwnsAction(p, tx) THEN Discard(p, tx)
    ELSE CASE tx.kind = Dispute -> DisputeArm(p, tx)
           [] tx.kind = Resolve -> ResolveArm(p, tx)
           [] tx.kind = Chargeback -> ChargebackArm(p, tx)

\* mutant: the account is never marked as active
MarkActive_Skip(p, cid) == p

\* account.has_activity = true
MarkActive(p, cid) == [p EXCEPT !.accounts[cid].has_activity = TRUE]

\* the kinds of the outer arm Dispute | Resolve | Chargeback
OuterKinds == {Dispute, Resolve, Chargeback}

\* the kinds the inner match has an arm for
InnerKinds == {Dispute, Resolve, Chargeback}

\* the call runs into the arm _ => unreachable!() of the inner match
ReachesUnreachable(p, tx) ==
    /\ ~IsLocked(p.accounts[tx.cid])
    /\ tx.kind \in OuterKinds
    /\ OwnsAction(p, tx)
    /\ tx.kind \notin InnerKinds

\* pub fn process_transaction(&mut self, transaction: &Transaction)
process_transaction(p, tx) ==
    IF IsLocked(p.accounts[tx.cid]) THEN p
    ELSE LET p1 == MarkActive(p, tx.cid) IN
         CASE tx.kind = Deposit -> DepositArm(p1, tx)
           [] tx.kind = Withdrawal -> WithdrawalArm(p1, tx)
           [] OTHER -> CorrectionArm(p1, tx)

\* ------------------------------------------------- Transaction::deserialize
\* a text field is the sequence of its characters
S_deposit == <<"d", "e", "p", "o", "s", "i", "t">>
S_withdrawal == <<"w", "i", "t", "h", "d", "r", "a", "w", "a", "l">>
S_dispute == <<"d", "i", "s", "p", "u", "t", "e">>
S_resolve == <<"r", "e", "s", "o", "l", "v", "e">>
S_chargeback == <<"c", "h", "a", "r", "g", "e", "b", "a", "c", "k">>

\* Option<Decimal>: None, or Some(x)
None == << >>
Some(x) == <<x>>
IsSome(o) == Len(o) = 1
Unwrap(o) == o[1]

\* TransactionCSVRow { kind, cid, tid, amount }
TransactionCSVRow(kind, cid, tid, amount) ==
    [kind |-> kind, cid |-> cid, tid |-> tid, amount |-> amount]

\* Result<Transaction, D::Error>
Ok(tx) == [ok |-> TRUE, tx |-> tx, err |-> ""]
Err(msg) == [ok |-> FALSE, tx |-> Transaction("None", 0, 0, 0), err |-> msg]

\* the characters csv::Trim strips
Whitespace == {" ", "\t"}

RECURSIVE TrimStart(_)
TrimStart(s) ==
    IF s # << >> /\ Head(s) \in Whitespace THEN TrimStart(Tail(s)) ELSE s

RECURSIVE TrimEnd(_)
TrimEnd(s) ==
    IF s # << >> /\ s[Len(s)] \in Whitespace
    THEN TrimEnd(SubSeq(s, 1, Len(s) - 1)) ELSE s

\* mutant: the reader is built without .trim(csv::Trim::All)
Trim_Off(s) == s

\* ReaderBuilder::trim(csv::Trim::All): leading and trailing whitespace of a
\* field is dropped before the row is deserialized
Trim(s) == TrimEnd(TrimStart(s))

\* mutant: a zero amount passes (amount < Decimal::ZERO is refused)
IsRefusedAmount_ZeroPasses(amount) == amount < 0

\* amount <= Decimal::ZERO
IsRefusedAmount(amount) == amount <= 0

\* the "deposit" arm
ParseDeposit(row) ==
    IF ~IsSome(row.amount) THEN Err("deposit requires amount")
    ELSE IF IsRefusedAmount(Unwrap(row.amount))
    THEN Err("deposit amount must be positive")
    ELSE Ok(Transaction(Deposit, row.cid, row.tid, Unwrap(row.amount)))

\* the "withdrawal" arm
ParseWithdrawal(row) ==
    IF ~IsSome(row.amount) THEN Err("withdrawal requires amount")
    ELSE IF IsRefusedAmount(Unwrap(row.amount))
    THEN Err("withdrawal amount must be positive")
    ELSE Ok(Transaction(Withdrawal, row.cid, row.tid, Unwrap(row.amount)))

\* the "dispute", "resolve" and "chargeback" arms
ParseCorrection(row, kind, msg) ==
    IF IsSome(row.amount) THEN Err(msg)
    ELSE Ok(Transaction(kind, row.cid, row.tid, 0))

\* <Transaction as Deserialize>::deserialize, from the typed row on: the
\* tag is compared with the five lowercase literals
deserialize(row) ==
    CASE row.kind = S_deposit -> ParseDeposit(row)
      [] row.kind = S_withdrawal -> ParseWithdrawal(row)
      [] row.kind = S_dispute ->
            ParseCorrection(row, Dispute, "dispute must not have amount")
      [] row.kind = S_resolve ->
            ParseCorrection(row, Resolve, "resolve must not have amount")
      [] row.kind = S_chargeback ->
            ParseCorrection(row, Chargeback, "chargeback must not have amount")
      [] OTHER -> Err("unknown transaction type")

\* one item of ReaderBuilder::new().trim(Trim::All)...deserialize::<Transaction>()
ParseRow(raw) == deserialize([raw EXCEPT !.kind = Trim(@)])

\* ------------------------------------------------------------ the report
\* OutputRow { client, available, held, total, locked }
OutputRow(client, account) ==
    [client |-> client,
     available |-> account.total - account.held,
     held |-> account.held,
     total |-> account.total,
     locked |-> account.is_locked]

\* a Decimal: the integer m scaled by 10^-scale
Dec(m, scale) == [m |-> m, scale |-> scale]

RECURSIVE Pow10(_)
Pow10(n) == IF n = 0 THEN 1 ELSE 10 * Pow10(n - 1)

\* the number of fractional digits of the report
OutputDp == 4

\* rust_decimal's round_dp rounds with MidpointNearestEven: a midpoint goes
\* up when the digit kept is odd
MidpointUp(quotient) == quotient % 2 = 1

\* Decimal::round_dp(dp) for a value that is not negative
round_dp(d, dp) ==
    IF d.scale <= dp THEN d
    ELSE LET unit == Pow10(d.scale - dp)
             quotient == d.m \div unit
             rest == d.m % unit
             half == unit \div 2
         IN Dec(IF rest > half \/ (rest = half /\ MidpointUp(quotient))
                THEN quotient + 1 ELSE quotient, dp)

\* the digits of n, most significant first, in a field of the given width
RECURSIVE Digits(_, _)
Digits(n, width) ==
    IF width = 0 THEN << >>
    ELSE Digits(n \div 10, width - 1) \o <<n % 10>>

\* format!("{:.4}", d) for a value of at most 4 fractional digits: the
\* integer part, then the fraction filled with zeros to the precision
Format(d, precision) ==
    LET scaled == d.m * Pow10(precision - d.scale)
    IN [int |-> scaled \div Pow10(precision),
        frac |-> Digits(scaled % Pow10(precision), precision)]

\* serializer.serialize_str(&format!("{:.4}", value.round_dp(4)))
serialize_decimal_4dp(value) == Format(round_dp(value, OutputDp), OutputDp)

\* mutant: every account of the table is reported
IsReported_All(account) == TRUE

\* .filter(|(_, account)| account.has_activity)
IsReported(account) == account.has_activity

\* payments.accounts.iter().enumerate().filter(..).map(..), from index c on
RECURSIVE output_stream(_, _)
output_stream(accs, c) ==
    IF c > MaxClient THEN << >>
    ELSE IF IsReported(accs[c])
    THEN <<OutputRow(c, accs[c])>> \o output_stream(accs, c + 1)
    ELSE output_stream(accs, c + 1)

\* account.total - account.held overflows for a reported account
ReportPanics(accs) ==
    \E c \in Clients :
        IsReported(accs[c]) /\ Overflowed(accs[c].total - accs[c].held)

\* ------------------------------------------------------------------- state
VARIABLES
    accounts,     \* Payments.accounts
    actions,      \* Payments.actions
    panicked,     \* the process has aborted in an arithmetic panic
    last,         \* the record of the latest process_transaction call
    preAccounts,  \* Payments.accounts when that call began
    preActions,   \* Payments.actions when that call began
    seen,         \* the tids carried so far by deposit / withdrawal records
    unique,       \* no deposit / withdrawal record has reused a tid so far
    trip,         \* progress of a deposit, dispute, resolve run in a row
    addressed,    \* the clients some record has named so far
    rejected,     \* the tids of withdrawals refused for lack of funds
    early,        \* the tids corrected before any action carried them
    deposit_disputed, \* some Deposit action has been disputed so far
    charged,      \* per client, the chargebacks that met every guard so far
    fault,        \* "index", "unreachable" once a call went there, else "none"
    steps,        \* the number of records consumed
    feed,         \* the rows of the input file, as the reader yields them
    pos,          \* the index of the next row of the feed
    pc,           \* "read" while main is in process_csv, "done" at its end
    report,       \* the rows written to stdout
    warnings,     \* the number of rows reported on stderr
    row,          \* the row given to the parser alone
    result,       \* what the parser returned for it
    stored,       \* the Decimal given to the serializer alone
    written       \* the text the serializer produced for it

engineVars == <<accounts, actions, panicked, last, preAccounts, preActions,
                seen, unique, trip, addressed, rejected, early,
                deposit_disputed, charged, fault>>
driverVars == <<feed, pos, pc, report, warnings>>
parseVars == <<row, result>>
outputVars == <<stored, written>>

vars == <<engineVars, steps, driverVars, parseVars, outputVars>>

NoTransaction == Transaction("None", 0, 0, 0)

NoTrip == [stage |-> 0, cid |-> 0, tid |-> 0, total |-> 0, held |-> 0]

NoRow == TransactionCSVRow(<< >>, 0, 0, None)

NoResult == Err("not parsed")

\* nothing has been given to the serializer alone
OutputIdle == stored = Dec(0, 0) /\ written = None

\* follows deposit(c, t, a) on a tid without action, dispute(c, t),
\* resolve(c, t) applied one right after the other
NextTrip(tx) ==
    IF /\ tx.kind = Deposit
       /\ ~accounts[tx.cid].is_locked
       /\ tx.tid \notin DOMAIN actions
    THEN [stage |-> 1, cid |-> tx.cid, tid |-> tx.tid,
          total |-> accounts[tx.cid].total, held |-> accounts[tx.cid].held]
    ELSE IF /\ trip.stage = 1 /\ tx.kind = Dispute
            /\ tx.cid = trip.cid /\ tx.tid = trip.tid
    THEN [trip EXCEPT !.stage = 2]
    ELSE IF /\ trip.stage = 2 /\ tx.kind = Resolve
            /\ tx.cid = trip.cid /\ tx.tid = trip.tid
    THEN [trip EXCEPT !.stage = 3]
    ELSE NoTrip

\* a withdrawal of an unlocked sender refused for lack of funds adds its
\* tid when the tid has no action; any other deposit or withdrawal record
\* carrying the tid takes it out again
NextRejected(tx) ==
    IF /\ tx.kind = Withdrawal
       /\ ~accounts[tx.cid].is_locked
       /\ get_available(accounts[tx.cid]) < tx.amount
       /\ tx.tid \notin DOMAIN actions
    THEN rejected \cup {tx.tid}
    ELSE IF tx.kind \in {Deposit, Withdrawal}
    THEN rejected \ {tx.tid}
    ELSE rejected

\* a dispute, resolve or chargeback naming a tid without action adds the tid
NextEarly(tx) ==
    IF tx.kind \in {Dispute, Resolve, Chargeback} /\ tx.tid \notin DOMAIN actions
    THEN early \cup {tx.tid}
    ELSE early

\* the record is a dispute that meets every guard and names a Deposit action
DisputesDeposit(tx) ==
    /\ tx.kind = Dispute
    /\ ~accounts[tx.cid].is_locked
    /\ tx.tid \in DOMAIN actions
    /\ actions[tx.tid].cid = tx.cid
    /\ actions[tx.tid].status = Fresh
    /\ actions[tx.tid].kind = Deposit

\* the record is a chargeback that meets every guard
ChargesBack(tx) ==
    /\ tx.kind = Chargeback
    /\ ~accounts[tx.cid].is_locked
    /\ tx.tid \in DOMAIN actions
    /\ actions[tx.tid].cid = tx.cid
    /\ actions[tx.tid].status = Disputed

\* let mut payments = Payments::default()
EngineInit ==
    /\ accounts = DefaultPayments.accounts
    /\ actions = DefaultPayments.actions
    /\ panicked = FALSE
    /\ last = NoTransaction
    /\ preAccounts = DefaultPayments.accounts
    /\ preActions = DefaultPayments.actions
    /\ seen = {}
    /\ unique = TRUE
    /\ trip = NoTrip
    /\ addressed = {}
    /\ rejected = {}
    /\ early = {}
    /\ deposit_disputed = FALSE
    /\ charged = [c \in Clients |-> 0]
    /\ fault = "none"

Init ==
    /\ EngineInit
    /\ steps = 0
    /\ feed = << >>
    /\ pos = 1
    /\ pc = "read"
    /\ report = << >>
    /\ warnings = 0
    /\ row = NoRow
    /\ result = NoResult
    /\ OutputIdle

\* the account lookup indexes past the end of the table: the behaviour is
\* undefined; the process aborts, or it goes on and the table is as it was
OutOfTable(tx) ==
    /\ fault' = "index"
    /\ panicked' \in BOOLEAN
    /\ last' = tx
    /\ preAccounts' = accounts
    /\ preActions' = actions
    /\ UNCHANGED <<accounts, actions, seen, unique, trip, addressed, rejected,
                   early, deposit_disputed, charged>>

\* payments.process_transaction(transaction), the index inside the table
InTable(tx) ==
    /\ LET r == process_transaction(
                    [accounts |-> accounts, actions |-> actions,
                     panicked |-> FALSE], tx)
       IN /\ accounts' = r.accounts
          /\ actions' = r.actions
          /\ panicked' = r.panicked
    /\ last' = tx
    /\ preAccounts' = accounts
    /\ preActions' = actions
    /\ seen' = IF tx.kind \in {Deposit, Withdrawal}
               THEN seen \cup {tx.tid} ELSE seen
    /\ unique' = (unique /\ ~(tx.kind \in {Deposit, Withdrawal}
                               /\ tx.tid \in seen))
    /\ trip' = NextTrip(tx)
    /\ addressed' = addressed \cup {tx.cid}
    /\ rejected' = NextRejected(tx)
    /\ early' = NextEarly(tx)
    /\ deposit_disputed' = (deposit_disputed \/ DisputesDeposit(tx))
    /\ charged' = IF ChargesBack(tx)
                  THEN [charged EXCEPT ![tx.cid] = @ + 1] ELSE charged
    /\ fault' = IF ReachesUnreachable(
                       [accounts |-> accounts, actions |-> actions,
                        panicked |-> FALSE], tx)
                THEN "unreachable" ELSE fault

\* payments.process_transaction(transaction)
Apply(tx) ==
    IF IndexInTable(accounts, tx.cid) THEN InTable(tx) ELSE OutOfTable(tx)

\* one call of process_transaction by the driver's loop
Process(tx) ==
    /\ ~panicked
    /\ steps < MaxSteps
    /\ Apply(tx)
    /\ steps' = steps + 1
    /\ UNCHANGED <<driverVars, parseVars, outputVars>>

ProcessDeposit ==
    \E cid \in Clients, tid \in Tids, amount \in Amounts :
        Process(Transaction(Deposit, cid, tid, amount))

ProcessWithdrawal ==
    \E cid \in Clients, tid \in Tids, amount \in Amounts :
        Process(Transaction(Withdrawal, cid, tid, amount))

ProcessDispute ==
    \E cid \in Clients, tid \in Tids :
        Process(Transaction(Dispute, cid, tid, 0))

ProcessResolve ==
    \E cid \in Clients, tid \in Tids :
        Process(Transaction(Resolve, cid, tid, 0))

ProcessChargeback ==
    \E cid \in Clients, tid \in Tids :
        Process(Transaction(Chargeback, cid, tid, 0))

Next ==
    \/ ProcessDeposit
    \/ ProcessWithdrawal
    \/ ProcessDispute
    \/ ProcessResolve
    \/ ProcessChargeback

Spec == Init /\ [][Next]_vars

\* the loop of process_csv takes the next record whenever there is one
SpecLive == Init /\ [][Next]_vars /\ WF_vars(Next)

\* the records of a run that leave client 0 with two Disputed actions
SeedRecords ==
    <<Transaction(Deposit, 0, 0, AmountUnit),
      Transaction(Deposit, 0, 1, AmountUnit),
      Transaction(Dispute, 0, 0, 0),
      Transaction(Dispute, 0, 1, 0)>>

\* the ledger after the records of txs were applied in order to p
RECURSIVE ApplyAll(_, _)
ApplyAll(p, txs) ==
    IF txs = << >> THEN p
    ELSE ApplyAll(process_transaction(p, Head(txs)), Tail(txs))

\* the state the loop is in once it has consumed SeedRecords
SeededInit ==
    LET before == ApplyAll(DefaultPayments,
                           SubSeq(SeedRecords, 1, Len(SeedRecords) - 1))
        after == ApplyAll(DefaultPayments, SeedRecords)
    IN /\ accounts = after.accounts
       /\ actions = after.actions
       /\ panicked = FALSE
       /\ last = SeedRecords[Len(SeedRecords)]
       /\ preAccounts = before.accounts
       /\ preActions = before.actions
       /\ seen = {0, 1}
       /\ unique = TRUE
       /\ trip = NoTrip
       /\ addressed = {0}
       /\ rejected = {}
       /\ early = {}
       /\ deposit_disputed = TRUE
       /\ charged = [c \in Clients |-> 0]
       /\ fault = "none"
       /\ steps = 0
       /\ feed = << >>
       /\ pos = 1
       /\ pc = "read"
       /\ report = << >>
       /\ warnings = 0
       /\ row = NoRow
       /\ result = NoResult
       /\ OutputIdle

\* the loop from its start, and the loop picked up after SeedRecords
SpecSeeded == (Init \/ SeededInit) /\ [][Next]_vars

\* ------------------------------------------------------- the parser alone
MaxPad == 1

Lowercase == <<"a", "b", "c", "d", "e", "g", "h", "i", "k", "l", "m",
               "o", "p", "r", "s", "t", "u", "v", "w">>
Uppercase == <<"A", "B", "C", "D", "E", "G", "H", "I", "K", "L", "M",
               "O", "P", "R", "S", "T", "U", "V", "W">>

IndexIn(seq, ch) == CHOOSE i \in 1..Len(seq) : seq[i] = ch

ToUpper(ch) ==
    IF \E i \in 1..Len(Lowercase) : Lowercase[i] = ch
    THEN Uppercase[IndexIn(Lowercase, ch)] ELSE ch

ToLower(ch) ==
    IF \E i \in 1..Len(Uppercase) : Uppercase[i] = ch
    THEN Lowercase[IndexIn(Uppercase, ch)] ELSE ch

UpperCased(s) == [i \in 1..Len(s) |-> ToUpper(s[i])]
LowerCased(s) == [i \in 1..Len(s) |-> ToLower(s[i])]
Capitalised(s) == [i \in 1..Len(s) |-> IF i = 1 THEN ToUpper(s[i]) ELSE s[i]]

RECURSIVE Blanks(_)
Blanks(n) == IF n = 0 THEN << >> ELSE <<" ">> \o Blanks(n - 1)

\* the five tags of the match in deserialize
Tags == {S_deposit, S_withdrawal, S_dispute, S_resolve, S_chargeback}

S_magic == <<"m", "a", "g", "i", "c">>

\* the type fields tried: the tags, as they are, in other letter case and
\* with whitespace around, and fields that are no tag at all
TypeFields ==
    Tags
    \cup {Capitalised(t) : t \in Tags}
    \cup {UpperCased(t) : t \in Tags}
    \cup {Blanks(n) \o t \o <<"\t">> : t \in Tags, n \in 1..MaxPad}
    \cup {Blanks(n) \o t : t \in Tags, n \in 1..MaxPad}
    \cup {S_magic, << >>, Blanks(MaxPad)}

\* the amount fields tried: none, zero, negative and positive amounts
AmountFields ==
    {None} \cup {Some(0)} \cup {Some(a) : a \in Amounts}
           \cup {Some(0 - a) : a \in Amounts}

Rows ==
    {TransactionCSVRow(k, c, t, a) :
        k \in TypeFields, c \in Clients, t \in Tids, a \in AmountFields}

ParseInit ==
    /\ EngineInit
    /\ steps = 0
    /\ feed = << >>
    /\ pos = 1
    /\ pc = "read"
    /\ report = << >>
    /\ warnings = 0
    /\ row \in Rows
    /\ result = NoResult
    /\ OutputIdle

\* the reader trims the fields of the row and deserializes it
Deserialize ==
    /\ result = NoResult
    /\ result' = ParseRow(row)
    /\ UNCHANGED <<engineVars, steps, driverVars, row, outputVars>>

SpecParse == ParseInit /\ [][Deserialize]_vars

\* ------------------------------------------------------------- the driver
MaxFeed == 2

\* a row of the given type field
R(kind, cid, tid, amount) == TransactionCSVRow(kind, cid, tid, amount)

\* the rows of the generated feeds: for the first and the last client and
\* tid, each tag with the amount field it asks for, and three rows the
\* parser refuses
FeedRows ==
    {R(t, c, tid, IF t \in {S_deposit, S_withdrawal}
                  THEN Some(AmountUnit) ELSE None) :
        t \in Tags, c \in {0, MaxClient}, tid \in {0, MaxTid}}
    \cup {R(Capitalised(S_deposit), c, 0, Some(AmountUnit)) : c \in {0, MaxClient}}
    \cup {R(S_deposit, c, 0, None) : c \in {0, MaxClient}}
    \cup {R(S_dispute, c, 0, Some(AmountUnit)) : c \in {0, MaxClient}}

\* spec.md, scenario A; test_deposit
ScenarioA ==
    <<R(S_deposit, 0, 0, Some(10)), R(S_deposit, 0, 1, Some(20))>>

\* spec.md, scenario B; test_deposit_dispute_chargeback
ScenarioB ==
    <<R(S_deposit, 0, 0, Some(10)), R(S_dispute, 0, 0, None),
      R(S_chargeback, 0, 0, None)>>

\* spec.md, scenario C; test_withdraw_dispute_resolve
ScenarioC ==
    <<R(S_deposit, 0, 0, Some(100)), R(S_withdrawal, 0, 1, Some(50)),
      R(S_dispute, 0, 1, None), R(S_resolve, 0, 1, None)>>

\* spec.md, scenario D; test_withdraw_not_enough_funds
ScenarioD ==
    <<R(S_deposit, 0, 0, Some(10)), R(S_withdrawal, 0, 1, Some(20))>>

\* two deposits of 20 and 15 for client 0
ScenarioTwoDeposits ==
    <<R(S_deposit, 0, 0, Some(20)), R(S_deposit, 0, 1, Some(15))>>

\* three deposits with distinct tids for two clients
ScenarioDeposits ==
    <<R(S_deposit, 1, 2, Some(30)), R(S_deposit, 0, 0, Some(10)),
      R(S_deposit, 1, 1, Some(5))>>

\* test_one_locked_one_active: client 0 is charged back, then both deposit
ScenarioLocked ==
    <<R(S_deposit, 0, 0, Some(10)), R(S_deposit, 1, 1, Some(20)),
      R(S_dispute, 0, 0, None), R(S_chargeback, 0, 0, None),
      R(S_deposit, 0, 2, Some(5)), R(S_deposit, 1, 2, Some(5))>>

\* scenario C with rows the parser refuses before, between and after
ScenarioFaulty ==
    <<R(S_magic, 0, 0, Some(10)), R(S_deposit, 0, 0, Some(100)),
      R(S_deposit, 0, 2, None), R(UpperCased(S_withdrawal), 0, 1, Some(50)),
      R(S_withdrawal, 0, 1, Some(50)), R(S_dispute, 0, 1, Some(50)),
      R(S_dispute, 0, 1, None), R(S_resolve, 0, 1, None),
      R(S_deposit, 1, 2, Some(0))>>

\* deposits of the largest Decimal
ScenarioOverflow ==
    <<R(S_deposit, 0, 0, Some(DecimalMax)), R(S_deposit, 0, 1, Some(DecimalMax)),
      R(S_deposit, 1, 2, Some(10))>>

\* client 1 sends a resolve, a chargeback and a dispute for the deposit of
\* client 0, before and after client 0 has disputed it
ScenarioForeign ==
    <<R(S_deposit, 0, 0, Some(100)), R(S_deposit, 1, 1, Some(50)),
      R(S_dispute, 1, 0, None), R(S_dispute, 0, 0, None),
      R(S_resolve, 1, 0, None), R(S_chargeback, 1, 0, None),
      R(S_withdrawal, 1, 2, Some(30))>>

\* client 1 deposits under the tid of the deposit of client 0, which then
\* sends a dispute for it
ScenarioReused ==
    <<R(S_deposit, 0, 0, Some(10)), R(S_deposit, 1, 0, Some(20)),
      R(S_dispute, 0, 0, None)>>

Scenarios ==
    {ScenarioA, ScenarioB, ScenarioC, ScenarioD, ScenarioTwoDeposits,
     ScenarioDeposits, ScenarioLocked, ScenarioFaulty, ScenarioOverflow,
     ScenarioForeign, ScenarioReused}

\* the rows of the longer feeds: a deposit of each of two clients, and the
\* dispute and the chargeback of the first deposit by its owner and by the
\* other client
CrossRows ==
    {R(S_deposit, 0, 0, Some(AmountUnit)),
     R(S_deposit, MaxClient, MaxTid, Some(AmountUnit)),
     R(S_dispute, 0, 0, None), R(S_dispute, MaxClient, 0, None),
     R(S_chargeback, 0, 0, None), R(S_chargeback, MaxClient, 0, None)}

CrossFeeds == [1..(MaxFeed + 2) -> CrossRows]

Feeds ==
    UNION {[1..n -> FeedRows] : n \in 0..MaxFeed} \cup Scenarios
                                                  \cup CrossFeeds

DriverInit ==
    /\ EngineInit
    /\ steps = 0
    /\ feed \in Feeds
    /\ pos = 1
    /\ pc = "read"
    /\ report = << >>
    /\ warnings = 0
    /\ row = NoRow
    /\ result = NoResult
    /\ OutputIdle

\* mutant: the error leaves the loop (result? in place of the match)
AfterError_Leaves(rows, position) == Len(rows) + 1

\* Err(deserialization_error) => eprintln!(..): the loop goes on with the
\* row that follows
AfterError(rows, position) == position + 1

\* Ok(transaction) => payments.process_transaction(transaction)
ApplyRow ==
    /\ pc = "read"
    /\ ~panicked
    /\ pos <= Len(feed)
    /\ ParseRow(feed[pos]).ok
    /\ Apply(ParseRow(feed[pos]).tx)
    /\ pos' = pos + 1
    /\ UNCHANGED <<steps, feed, pc, report, warnings, parseVars,
                   outputVars>>

\* Err(deserialization_error) => eprintln!("Warning: ...")
SkipRow ==
    /\ pc = "read"
    /\ ~panicked
    /\ pos <= Len(feed)
    /\ ~ParseRow(feed[pos]).ok
    /\ warnings' = warnings + 1
    /\ pos' = AfterError(feed, pos)
    /\ UNCHANGED <<engineVars, steps, feed, pc, report, parseVars,
                   outputVars>>

\* the feed is exhausted: main builds the output stream and writes it
WriteReport ==
    /\ pc = "read"
    /\ ~panicked
    /\ pos > Len(feed)
    /\ IF ReportPanics(accounts)
       THEN /\ panicked' = TRUE
            /\ UNCHANGED <<report, pc>>
       ELSE /\ report' = output_stream(accounts, 0)
            /\ pc' = "done"
            /\ UNCHANGED panicked
    /\ UNCHANGED <<accounts, actions, last, preAccounts, preActions, seen,
                   unique, trip, addressed, rejected, early,
                   deposit_disputed, charged, fault, steps, feed, pos,
                   warnings,
                   parseVars, outputVars>>

DriverNext ==
    \/ ApplyRow
    \/ SkipRow
    \/ WriteReport

\* main is one sequential loop: it takes its next step whenever it has one
SpecDriver == DriverInit /\ [][DriverNext]_vars /\ WF_vars(DriverNext)

\* ------------------------------------------------------ the serializer alone
MaxMantissa == 60
MaxScale == 5

\* the values tried: every mantissa at every scale, and 1.00005, 1.00025
StoredValues ==
    {Dec(m, s) : m \in 0..MaxMantissa, s \in 0..MaxScale}
    \cup {Dec(100005, 5), Dec(100025, 5)}

OutputInit ==
    /\ EngineInit
    /\ steps = 0
    /\ feed = << >>
    /\ pos = 1
    /\ pc = "read"
    /\ report = << >>
    /\ warnings = 0
    /\ row = NoRow
    /\ result = NoResult
    /\ stored \in StoredValues
    /\ written = None

\* one field of one row is serialized
Serialize ==
    /\ written = None
    /\ written' = Some(serialize_decimal_4dp(stored))
    /\ UNCHANGED <<engineVars, steps, driverVars, parseVars, stored>>

SpecOutput == OutputInit /\ [][Serialize]_vars

\* ------------------------------------------------------ reading the last call
\* the latest call of process_transaction ran to its end
Returned == last.kind # "None" /\ ~panicked

\* the sender's account before and after the latest call
PreAccount == preAccounts[last.cid]
PostAccount == accounts[last.cid]

\* available = total - held
Available(account) == account.total - account.held

\* before the latest call, the record's tid had an action owned by the sender
PreOwned ==
    /\ last.tid \in DOMAIN preActions
    /\ preActions[last.tid].cid = last.cid

\* the latest call left total, held and locked of every account as they were
BalancesKept ==
    \A c \in Clients :
        /\ accounts[c].total = preAccounts[c].total
        /\ accounts[c].held = preAccounts[c].held
        /\ accounts[c].is_locked = preAccounts[c].is_locked

\* the latest call was a correction of kind k that met every guard
Succeeded(k, status) ==
    /\ Returned
    /\ last.kind = k
    /\ ~PreAccount.is_locked
    /\ PreOwned
    /\ preActions[last.tid].status = status

\* ------------------------------------------------------------------ claims
\* C1: while no deposit / withdrawal has reused a tid, the status of a
\* recorded action moves only Fresh -> Disputed, by a dispute of its owner,
\* and Disputed -> Final, by a resolve or chargeback of its owner; a new
\* action is born Fresh.
C1_StatusLifecycle ==
    unique =>
        /\ \A t \in DOMAIN preActions :
              /\ t \in DOMAIN actions
              /\ \/ actions[t].status = preActions[t].status
                 \/ /\ preActions[t].status = Fresh
                    /\ actions[t].status = Disputed
                    /\ last = Transaction(Dispute, preActions[t].cid, t, 0)
                 \/ /\ preActions[t].status = Disputed
                    /\ actions[t].status = Final
                    /\ \/ last = Transaction(Resolve, preActions[t].cid, t, 0)
                       \/ last = Transaction(Chargeback, preActions[t].cid, t, 0)
        /\ \A t \in (DOMAIN actions) \ (DOMAIN preActions) :
              actions[t].status = Fresh

C1_Witness ==
    /\ unique
    /\ Succeeded(Resolve, Disputed)
    /\ actions[last.tid].status = Final

\* C2: a record sent to a locked account changes neither that account nor
\* the action map, and no call unlocks an account.
C2_LockedIsInert ==
    /\ (last.kind # "None" /\ PreAccount.is_locked) =>
          /\ PostAccount = PreAccount
          /\ actions = preActions
          /\ ~panicked
    /\ \A c \in Clients : preAccounts[c].is_locked => accounts[c].is_locked

C2_Witness ==
    /\ last.kind = Deposit
    /\ PreAccount.is_locked
    /\ PostAccount.is_locked

\* C3: a withdrawal sent to an unlocked account debits total and records a
\* Fresh Withdrawal action exactly when total - held >= amount held before
\* the debit; otherwise balances, locked and the action map stay as they were.
C3_Withdrawal ==
    (Returned /\ last.kind = Withdrawal /\ ~PreAccount.is_locked) =>
        IF Available(PreAccount) >= last.amount
        THEN /\ PostAccount.total = PreAccount.total - last.amount
             /\ PostAccount.held = PreAccount.held
             /\ ~PostAccount.is_locked
             /\ DOMAIN actions = (DOMAIN preActions) \cup {last.tid}
             /\ actions[last.tid] =
                    Action(last.cid, Withdrawal, last.amount, Fresh)
             /\ \A t \in (DOMAIN actions) \ {last.tid} :
                    actions[t] = preActions[t]
        ELSE /\ BalancesKept
             /\ actions = preActions

C3_Witness ==
    /\ Returned
    /\ last.kind = Withdrawal
    /\ ~PreAccount.is_locked
    /\ Available(PreAccount) = last.amount
    /\ PostAccount.total = PreAccount.total - last.amount

\* C4: a dispute that meets every guard marks the action Disputed; for a
\* Deposit action held rises by its amount and total stays, for a Withdrawal
\* action total and held both rise by its amount; locked stays false.
C4_DisputeEffect ==
    Succeeded(Dispute, Fresh) =>
        LET action == preActions[last.tid] IN
        /\ actions[last.tid] = [action EXCEPT !.status = Disputed]
        /\ PostAccount.held = PreAccount.held + action.amount
        /\ PostAccount.total = IF action.kind = Withdrawal
                               THEN PreAccount.total + action.amount
                               ELSE PreAccount.total
        /\ ~PostAccount.is_locked

C4_Witness ==
    /\ Succeeded(Dispute, Fresh)
    /\ preActions[last.tid].kind = Withdrawal
    /\ actions[last.tid].status = Disputed

\* C5 as stated: the dispute of a Withdrawal action lowers the owner's
\* available balance by the action's amount.
C5_AvailableReduced ==
    (Succeeded(Dispute, Fresh) /\ preActions[last.tid].kind = Withdrawal) =>
        Available(PostAccount) =
            Available(PreAccount) - preActions[last.tid].amount

\* C5 amended: the dispute of a Withdrawal action leaves the owner's
\* available balance exactly as it was right before the dispute.
C5_AvailableKept ==
    (Succeeded(Dispute, Fresh) /\ preActions[last.tid].kind = Withdrawal) =>
        Available(PostAccount) = Available(PreAccount)

C5_Witness ==
    /\ Succeeded(Dispute, Fresh)
    /\ preActions[last.tid].kind = Withdrawal
    /\ PostAccount.held = PreAccount.held + preActions[last.tid].amount
    /\ PostAccount.held > 0

\* C6: a resolve that meets every guard marks the action Final and leaves
\* the account unlocked; for a Deposit action total and held both fall by
\* its amount, with no floor at zero, for a Withdrawal action only held falls.
C6_ResolveEffect ==
    Succeeded(Resolve, Disputed) =>
        LET action == preActions[last.tid] IN
        /\ actions[last.tid] = [action EXCEPT !.status = Final]
        /\ PostAccount.held = PreAccount.held - action.amount
        /\ PostAccount.total = IF action.kind = Deposit
                               THEN PreAccount.total - action.amount
                               ELSE PreAccount.total
        /\ ~PostAccount.is_locked

C6_Witness ==
    /\ Succeeded(Resolve, Disputed)
    /\ preActions[last.tid].kind = Deposit
    /\ PostAccount.total < 0

\* C7: a chargeback that meets every guard marks the action Final and locks
\* the account; for a Deposit action only held falls by its amount, so that
\* available rises by it, for a Withdrawal action held and total both fall.
C7_ChargebackEffect ==
    Succeeded(Chargeback, Disputed) =>
        LET action == preActions[last.tid] IN
        /\ actions[last.tid] = [action EXCEPT !.status = Final]
        /\ PostAccount.is_locked
        /\ PostAccount.held = PreAccount.held - action.amount
        /\ PostAccount.total = IF action.kind = Withdrawal
                               THEN PreAccount.total - action.amount
                               ELSE PreAccount.total
        /\ action.kind = Deposit =>
              Available(PostAccount) = Available(PreAccount) + action.amount

C7_Witness ==
    /\ Succeeded(Chargeback, Disputed)
    /\ preActions[last.tid].kind = Withdrawal
    /\ PostAccount.is_locked
    /\ PostAccount.total = PreAccount.total - preActions[last.tid].amount

\* C8: a dispute, resolve or chargeback whose tid has no action, or an action
\* of another client, changes no account's total, held or locked and no
\* action; a chargeback of a non-owner locks nobody.
C8_UnknownOrForeign ==
    (last.kind \in {Dispute, Resolve, Chargeback} /\ ~PreOwned) =>
        /\ BalancesKept
        /\ actions = preActions
        /\ ~panicked

C8_Witness ==
    /\ last.kind = Chargeback
    /\ ~PreAccount.is_locked
    /\ last.tid \in DOMAIN preActions
    /\ preActions[last.tid].cid # last.cid
    /\ preActions[last.tid].status = Disputed
    /\ ~accounts[preActions[last.tid].cid].is_locked

\* C9: a dispute of an action that is not Fresh, and a resolve or chargeback
\* of an action that is not Disputed, change no balance, no locked flag and
\* no action; a repeated dispute adds nothing to the first one.
C9_WrongStatus ==
    LET wrong == \/ last.kind = Dispute /\ preActions[last.tid].status # Fresh
                 \/ /\ last.kind \in {Resolve, Chargeback}
                    /\ preActions[last.tid].status # Disputed
    IN (PreOwned /\ wrong) =>
          /\ BalancesKept
          /\ actions = preActions
          /\ ~panicked

C9_Witness ==
    /\ last.kind = Dispute
    /\ PreOwned
    /\ ~PreAccount.is_locked
    /\ preActions[last.tid].status = Disputed
    /\ PostAccount.held = preActions[last.tid].amount

\* C10: deposit(c, t, a) on a tid without action, dispute(c, t) and
\* resolve(c, t) applied in a row to an unlocked client leave its total and
\* held as they were before the deposit, leave it unlocked and leave the
\* action t Final.
C10_RoundTrip ==
    (trip.stage = 3 /\ ~panicked) =>
        /\ accounts[trip.cid].total = trip.total
        /\ accounts[trip.cid].held = trip.held
        /\ ~accounts[trip.cid].is_locked
        /\ trip.tid \in DOMAIN actions
        /\ actions[trip.tid].status = Final
        /\ actions[trip.tid].kind = Deposit

C10_Witness ==
    /\ trip.stage = 3
    /\ ~panicked
    /\ trip.total > 0
    /\ accounts[trip.cid].total = trip.total
    /\ actions[trip.tid].status = Final

\* ------------------------------------------------- reading feeds and rows
\* the field is the tag t with nothing but whitespace before and after it
IsPadded(field, t) ==
    \E i \in 1..(Len(field) + 1) :
        /\ i + Len(t) - 1 <= Len(field)
        /\ SubSeq(field, i, i + Len(t) - 1) = t
        /\ \A j \in 1..Len(field) :
              (j < i \/ j > i + Len(t) - 1) => field[j] \in Whitespace

\* the field with its whitespace characters left out
Letters(field) == SelectSeq(field, LAMBDA ch : ch \notin Whitespace)

\* the kind a tag stands for
KindOf(t) ==
    CASE t = S_deposit -> Deposit
      [] t = S_withdrawal -> Withdrawal
      [] t = S_dispute -> Dispute
      [] t = S_resolve -> Resolve
      [] t = S_chargeback -> Chargeback

\* the amount field is the one the tag t asks for
AmountFits(t, amount) ==
    IF t \in {S_deposit, S_withdrawal}
    THEN IsSome(amount) /\ Unwrap(amount) > 0
    ELSE ~IsSome(amount)

\* the row is one the spec calls well-formed
WellFormed(r) ==
    \E t \in Tags : IsPadded(r.kind, t) /\ AmountFits(t, r.amount)

\* the record a well-formed row stands for
RecordOf(r) ==
    LET t == CHOOSE t \in Tags : IsPadded(r.kind, t) IN
    Transaction(KindOf(t), r.cid, r.tid,
                IF IsSome(r.amount) THEN Unwrap(r.amount) ELSE 0)

\* the ledger after the well-formed rows of f were applied in order to p
RECURSIVE Replay(_, _)
Replay(p, f) ==
    IF f = << >> THEN p
    ELSE IF WellFormed(Head(f))
    THEN Replay(process_transaction(p, RecordOf(Head(f))), Tail(f))
    ELSE Replay(p, Tail(f))

\* the number of rows of f that are not well-formed
RECURSIVE Faulty(_)
Faulty(f) ==
    IF f = << >> THEN 0
    ELSE (IF WellFormed(Head(f)) THEN 0 ELSE 1) + Faulty(Tail(f))

\* every row of f is a well-formed deposit and no tid comes twice
DepositsOnly(f) ==
    /\ \A i \in 1..Len(f) : f[i].kind = S_deposit /\ WellFormed(f[i])
    /\ \A i, j \in 1..Len(f) : f[i].tid = f[j].tid => i = j

\* the sum of the amounts the rows of f deposit for client c
RECURSIVE Deposited(_, _)
Deposited(f, c) ==
    IF f = << >> THEN 0
    ELSE (IF Head(f).cid = c THEN Unwrap(Head(f).amount) ELSE 0)
         + Deposited(Tail(f), c)

\* ------------------------------------------------------------------ claims
\* C11 as stated: scenario C, deposit(0, 0, 100), withdrawal(0, 1, 50),
\* dispute(0, 1), resolve(0, 1) on a fresh ledger, ends with account 0 at
\* total 50, held 0, unlocked.
C11_ScenarioC_Total50 ==
    (pc = "done" /\ feed = ScenarioC) =>
        /\ accounts[0].total = 50
        /\ accounts[0].held = 0
        /\ ~accounts[0].is_locked

\* C11 amended: scenario C ends with account 0 at total 100, held 0,
\* unlocked: the resolve of the withdrawal releases the held 50 and keeps
\* the 50 that the dispute gave back to total.
C11_ScenarioC_Total100 ==
    (pc = "done" /\ feed = ScenarioC) =>
        /\ accounts[0].total = 100
        /\ accounts[0].held = 0
        /\ ~accounts[0].is_locked

C11_Witness ==
    /\ pc = "done"
    /\ feed = ScenarioC
    /\ actions[1] = Action(0, Withdrawal, 50, Final)
    /\ report = <<[client |-> 0, available |-> 100, held |-> 0,
                   total |-> 100, locked |-> FALSE]>>

C13_Frame ==
    last.kind # "None" =>
        /\ \A c \in Clients \ {last.cid} : accounts[c] = preAccounts[c]
        /\ DOMAIN preActions \subseteq DOMAIN actions
        /\ DOMAIN actions \subseteq (DOMAIN preActions) \cup {last.tid}
        /\ \A t \in (DOMAIN preActions) \ {last.tid} :
              actions[t] = preActions[t]

C13_Witness ==
    /\ Succeeded(Dispute, Fresh)
    /\ actions[last.tid].status = Disputed
    /\ \E t \in (DOMAIN actions) \ {last.tid} :
          /\ actions[t].cid = last.cid
          /\ actions[t].status = Fresh
    /\ \E c \in Clients \ {last.cid} : accounts[c].total > 0

\* C14: a record sent to an unlocked client leaves its has_activity true,
\* whatever rule rejects the record; has_activity never goes back to false;
\* an account no record has named is still the default account.
C14_HasActivity ==
    /\ (last.kind # "None" /\ ~PreAccount.is_locked) =>
          PostAccount.has_activity
    /\ \A c \in Clients :
          preAccounts[c].has_activity => accounts[c].has_activity
    /\ \A c \in Clients \ addressed : accounts[c] = DefaultAccount

C14_Witness ==
    /\ Returned
    /\ last.kind = Withdrawal
    /\ ~PreAccount.has_activity
    /\ PostAccount = [DefaultAccount EXCEPT !.has_activity = TRUE]
    /\ actions = preActions
    /\ Clients \ addressed # {}

\* C15: the report has one row for each account with has_activity, none
\* for any other, in strictly ascending order of client id, and each row
\* carries total - held, held, total and locked of its account.
C15_Report ==
    pc = "done" =>
        /\ \A i, j \in 1..Len(report) :
              i < j => report[i].client < report[j].client
        /\ {report[i].client : i \in 1..Len(report)} =
              {c \in Clients : accounts[c].has_activity}
        /\ \A i \in 1..Len(report) :
              LET account == accounts[report[i].client] IN
              /\ report[i].available = account.total - account.held
              /\ report[i].held = account.held
              /\ report[i].total = account.total
              /\ report[i].locked = account.is_locked

C15_Witness ==
    /\ pc = "done"
    /\ Len(report) = 1
    /\ report[1].locked
    /\ report[1].total > 0
    /\ \E c \in Clients : c > report[1].client /\ ~accounts[c].has_activity

\* C16: a locked account has has_activity set.
C16_LockedIsActive ==
    \A c \in Clients : accounts[c].is_locked => accounts[c].has_activity

C16_Witness ==
    \E c \in Clients :
        /\ accounts[c].is_locked
        /\ accounts[c].has_activity
        /\ \E d \in Clients : ~accounts[d].has_activity

\* C17 as stated: no call of process_transaction panics, whatever the
\* balances and the amount are.
C17_NeverPanics == ~panicked

\* C18: the driver comes to its end with every row of the feed consumed,
\* one warning for each row the parser refused, and the ledger that the
\* well-formed rows give when applied in feed order; only the panic of an
\* overflowing balance ends the run before.
C18_FeedConsumed ==
    <>(\/ panicked
       \/ /\ pc = "done"
          /\ pos = Len(feed) + 1
          /\ warnings = Faulty(feed)
          /\ LET p == Replay(DefaultPayments, feed) IN
             /\ accounts = p.accounts
             /\ actions = p.actions)

C18_Witness ==
    /\ pc = "done"
    /\ feed = ScenarioFaulty
    /\ warnings = 5
    /\ accounts[0].total = 100
    /\ actions[1].status = Final
    /\ ~accounts[1].has_activity

\* C19: the parser returns a Transaction exactly for the rows whose type is
\* one of the five tags and whose amount is present and above zero for a
\* deposit or withdrawal, absent for a dispute, resolve or chargeback; the
\* Transaction carries the row's kind, client, tid and amount.
C19_ParseIff ==
    result # NoResult =>
        /\ result.ok <=> WellFormed(row)
        /\ result.ok => result.tx = RecordOf(row)
        /\ (result.ok /\ result.tx.kind \in {Deposit, Withdrawal}) =>
              result.tx.amount > 0

C19_Witness ==
    /\ result # NoResult
    /\ ~result.ok
    /\ row.kind = S_deposit
    /\ row.amount = Some(0)

\* C20 as stated: a type field that is one of the five tags up to letter
\* case and surrounding whitespace is parsed as that kind.
C20_CaseInsensitive ==
    result # NoResult =>
        \A t \in Tags :
            (LowerCased(Letters(row.kind)) = t /\ AmountFits(t, row.amount)) =>
                result.ok /\ result.tx.kind = KindOf(t)

\* C20 amended: a type field that is one of the five lowercase tags with
\* whitespace around it is parsed as that kind; a field that differs from
\* a tag in letter case is refused as an unknown transaction type.
C20_CaseSensitive ==
    result # NoResult =>
        \A t \in Tags :
            /\ (IsPadded(row.kind, t) /\ AmountFits(t, row.amount)) =>
                  result.ok /\ result.tx.kind = KindOf(t)
            /\ (LowerCased(Letters(row.kind)) = t /\ Letters(row.kind) # t) =>
                  ~result.ok /\ result.err = "unknown transaction type"

C20_Witness ==
    /\ result.ok
    /\ result.tx.kind = Dispute
    /\ row.kind # S_dispute
    /\ Head(row.kind) \in Whitespace

\* ------------------------------------------------------------ C21 .. C30
\* the number a row of digits stands for
RECURSIVE FromDigits(_)
FromDigits(ds) ==
    IF ds = << >> THEN 0
    ELSE 10 * FromDigits(SubSeq(ds, 1, Len(ds) - 1)) + ds[Len(ds)]

\* the written text read back, in units of the last digit written
WrittenValue(w) == w.int * Pow10(Len(w.frac)) + FromDigits(w.frac)

\* d rounded half-up at the given digit, in units of that digit
HalfUp(d, dp) ==
    IF d.scale <= dp THEN d.m * Pow10(dp - d.scale)
    ELSE LET unit == Pow10(d.scale - dp)
         IN (d.m \div unit) + (IF 2 * (d.m % unit) >= unit THEN 1 ELSE 0)

\* C21: a value is written with exactly 4 fractional digits, rounded
\* half-up at the fourth: a value halfway between two 4-digit values goes
\* up whatever the parity of the fourth digit (1.00005 is written 1.0001)
C21_HalfUp ==
    IsSome(written) =>
        /\ Len(Unwrap(written).frac) = OutputDp
        /\ WrittenValue(Unwrap(written)) = HalfUp(stored, OutputDp)

\* the three records that correct an action
Corrections == {Dispute, Resolve, Chargeback}

\* C22: a withdrawal refused for lack of available funds records no action
\* and moves nothing, and a later dispute, resolve or chargeback naming its
\* tid leaves the actions and total, held and locked of every account as
\* they were
C22_RefusedLeavesNoAction ==
    /\ (/\ Returned
        /\ last.kind = Withdrawal
        /\ ~PreAccount.is_locked
        /\ Available(PreAccount) < last.amount)
       => (actions = preActions /\ BalancesKept)
    /\ (Returned /\ last.kind \in Corrections /\ last.tid \in rejected)
       => /\ last.tid \notin DOMAIN actions
          /\ actions = preActions
          /\ BalancesKept

\* a client with funds has had a withdrawal refused and now disputes its tid
C22_Witness ==
    /\ Returned
    /\ last.kind = Dispute
    /\ last.tid \in rejected
    /\ PreAccount.total > 0
    /\ PreAccount.held = 0
    /\ unique

\* C23: on a fresh ledger, after deposit(cid 0, tid 0, 20) and
\* deposit(cid 0, tid 1, 15), account 0 is {total 5, held 0, unlocked,
\* active} and it is the only active account
C23_TwoDeposits_Total5 ==
    (pc = "done" /\ feed = ScenarioTwoDeposits) =>
        /\ accounts[0] = [total |-> 5, held |-> 0, is_locked |-> FALSE,
                          has_activity |-> TRUE]
        /\ \A c \in Clients \ {0} : ~accounts[c].has_activity

\* C24: a dispute of a Withdrawal action that meets every guard leaves the
\* owner's available balance as it was, so that a withdrawal of the old
\* available balance plus the re-credited amount is refused; the resolve
\* that follows raises available by the action's amount
C24_WithdrawalDisputeFreezes ==
    /\ (Succeeded(Dispute, Fresh) /\ preActions[last.tid].kind = Withdrawal)
       => /\ Available(PostAccount) = Available(PreAccount)
          /\ ~HasFunds(PostAccount, Available(PreAccount)
                                      + preActions[last.tid].amount)
    /\ (Succeeded(Resolve, Disputed) /\ preActions[last.tid].kind = Withdrawal)
       => Available(PostAccount) =
              Available(PreAccount) + preActions[last.tid].amount

\* the resolve of a disputed withdrawal gives the owner funds to spend again
C24_Witness ==
    /\ Succeeded(Resolve, Disputed)
    /\ preActions[last.tid].kind = Withdrawal
    /\ Available(PreAccount) = 0
    /\ Available(PostAccount) = preActions[last.tid].amount
    /\ actions[last.tid].status = Final

\* the latest call was a deposit or a withdrawal that was applied
Applied ==
    /\ Returned
    /\ last.kind \in {Deposit, Withdrawal}
    /\ ~PreAccount.is_locked
    /\ last.kind = Withdrawal => HasFunds(PreAccount, last.amount)

\* C25: a dispute, resolve or chargeback that arrives before the deposit or
\* withdrawal carrying its tid is dropped and changes neither the actions nor
\* the balances; the deposit or withdrawal that arrives later is recorded
\* Fresh with held as it was; and an action becomes Disputed only in a call
\* that is a dispute of its owner naming the action already recorded
C25_EarlyCorrectionDropped ==
    /\ (Returned /\ last.kind \in Corrections
                 /\ last.tid \notin DOMAIN preActions)
       => (actions = preActions /\ BalancesKept)
    /\ (Applied /\ last.tid \in early)
       => /\ actions[last.tid] =
                Action(last.cid, last.kind, last.amount, Fresh)
          /\ PostAccount.held = PreAccount.held
    /\ \A t \in DOMAIN actions :
          (/\ actions[t].status = Disputed
           /\ (t \in DOMAIN preActions => preActions[t].status # Disputed))
          => /\ last = Transaction(Dispute, actions[t].cid, t, 0)
             /\ t \in DOMAIN preActions

\* a tid disputed too early, then deposited, then disputed by its owner
C25_Witness ==
    /\ Succeeded(Dispute, Fresh)
    /\ last.tid \in early
    /\ preActions[last.tid].kind = Deposit
    /\ actions[last.tid].status = Disputed
    /\ PostAccount.held = preActions[last.tid].amount

\* owner, kind and amount of the two actions agree
SameRecord(a, b) == a.cid = b.cid /\ a.kind = b.kind /\ a.amount = b.amount

\* C26: an action, once recorded for a tid, is never removed or replaced,
\* also when a later deposit or withdrawal carries its tid: its owner, kind
\* and amount stay and its status is never set back to Fresh
C26_NeverReplaced ==
    Returned =>
        \A t \in DOMAIN preActions :
            /\ t \in DOMAIN actions
            /\ SameRecord(actions[t], preActions[t])
            /\ preActions[t].status # Fresh => actions[t].status # Fresh

\* C26 amended: an action is never removed, and it is replaced only by an
\* applied deposit or withdrawal that carries its tid, which puts the Fresh
\* action of the new record in its place; every other call leaves its owner,
\* kind and amount and never sets its status back to Fresh
C26_ReplacedOnlyByReusedTid ==
    Returned =>
        \A t \in DOMAIN preActions :
            /\ t \in DOMAIN actions
            /\ IF Applied /\ last.tid = t
               THEN actions[t] = Action(last.cid, last.kind, last.amount, Fresh)
               ELSE /\ SameRecord(actions[t], preActions[t])
                    /\ preActions[t].status # Fresh
                           => actions[t].status # Fresh

\* a deposit of another client has taken the place of a Disputed action
C26_Witness ==
    /\ Applied
    /\ last.kind = Deposit
    /\ last.tid \in DOMAIN preActions
    /\ preActions[last.tid].status = Disputed
    /\ preActions[last.tid].cid # last.cid
    /\ actions[last.tid] = Action(last.cid, Deposit, last.amount, Fresh)
    /\ preAccounts[preActions[last.tid].cid].held > 0

\* the latest call was a resolve that met every guard and took the owner's
\* total from zero or more to below zero
ResolveDroveNegative ==
    /\ Succeeded(Resolve, Disputed)
    /\ PreAccount.total >= 0
    /\ PostAccount.total < 0

DisputedOf(c) ==
    {t \in DOMAIN actions : actions[t].cid = c /\ actions[t].status = Disputed}

\* the sum of the amounts of the actions of the given tids
RECURSIVE AmountSum(_)
AmountSum(ts) ==
    IF ts = {} THEN 0
    ELSE LET t == CHOOSE x \in ts : TRUE
         IN actions[t].amount + AmountSum(ts \ {t})

\* C28: while deposit / withdrawal tids are unique, each client's held is
\* the sum of the amounts of the Disputed actions the client owns; so held
\* is never negative and is 0 for a client without a Disputed action
C28_HeldIsDisputedSum ==
    (unique /\ ~panicked) =>
        \A c \in Clients :
            /\ accounts[c].held = AmountSum(DisputedOf(c))
            /\ accounts[c].held >= 0
            /\ DisputedOf(c) = {} => accounts[c].held = 0

\* one client owns two Disputed actions and holds the sum of their amounts
C28_Witness ==
    /\ unique
    /\ ~panicked
    /\ \E c \in Clients :
          /\ Cardinality(DisputedOf(c)) = 2
          /\ accounts[c].held = AmountSum(DisputedOf(c))
          /\ accounts[c].held > AmountUnit

\* C29: a call that takes the available balance of some account from zero
\* or more to below zero is a dispute of a Deposit action of that account that
\* meets every guard; and while no Deposit action has been disputed,
\* available >= 0 and total >= 0 for every account
C29_OnlyDepositDisputeOverdraws ==
    /\ Returned =>
          \A c \in Clients :
              (Available(preAccounts[c]) >= 0 /\ Available(accounts[c]) < 0)
              => /\ Succeeded(Dispute, Fresh)
                 /\ preActions[last.tid].kind = Deposit
                 /\ last.cid = c
    /\ (~deposit_disputed /\ ~panicked) =>
          \A c \in Clients :
              /\ Available(accounts[c]) >= 0
              /\ accounts[c].total >= 0

\* no Deposit action was disputed; the dispute of a withdrawal has frozen
\* all that the owner has, so that available is exactly 0
C29_Witness ==
    /\ ~deposit_disputed
    /\ Succeeded(Dispute, Fresh)
    /\ preActions[last.tid].kind = Withdrawal
    /\ PostAccount.total > 0
    /\ Available(PostAccount) = 0

\* C30: an account is locked exactly when a chargeback sent by its client
\* has met every guard, at most one chargeback per client ever does, and a
\* record sent by a locked client, a chargeback included, changes nothing
C30_LockedIffChargedBack ==
    ~panicked =>
        /\ \A c \in Clients :
              /\ accounts[c].is_locked <=> charged[c] >= 1
              /\ charged[c] <= 1
        /\ (last.kind # "None" /\ PreAccount.is_locked)
           => (accounts = preAccounts /\ actions = preActions)

\* a locked client sends a chargeback for an action of its own that is still
\* Disputed: the action stays Disputed and the funds stay held
C30_Witness ==
    /\ ~panicked
    /\ last.kind = Chargeback
    /\ PreAccount.is_locked
    /\ charged[last.cid] = 1
    /\ PreOwned
    /\ preActions[last.tid].status = Disputed
    /\ actions[last.tid].status = Disputed
    /\ PostAccount.held = preActions[last.tid].amount

\* ------------------------------------------------------------ C31 .. C33
\* C31: while deposit / withdrawal tids are unique, every step leaves each
\* action of a locked client as it is, a Disputed one Disputed and a Fresh
\* one Fresh, leaves the client locked and leaves its held as it is, which
\* covers the amount of each of its Disputed actions
C31_LockedKeepsDisputed ==
    [][\A t \in DOMAIN actions :
          LET c == actions[t].cid IN
          (accounts[c].is_locked /\ unique /\ unique' /\ ~panicked')
          => /\ t \in DOMAIN actions'
             /\ actions'[t] = actions[t]
             /\ accounts'[c].is_locked
             /\ accounts'[c].held = accounts[c].held
             /\ actions[t].status = Disputed
                    => accounts[c].held >= actions[t].amount]_vars

\* a locked client with a Fresh and a Disputed action of its own has sent a
\* resolve for the Disputed one: it is still Disputed and still held
C31_Witness ==
    /\ unique
    /\ ~panicked
    /\ last.kind = Resolve
    /\ PreAccount.is_locked
    /\ PreOwned
    /\ preActions[last.tid].status = Disputed
    /\ actions[last.tid].status = Disputed
    /\ PostAccount.held = actions[last.tid].amount
    /\ \E t \in DOMAIN actions :
          actions[t].cid = last.cid /\ actions[t].status = Fresh

\* the rows of f that name client c, in their order
Project(f, c) == SelectSeq(f, LAMBDA r : r.cid = c)

\* C32: at the end of a feed with unique deposit / withdrawal tids, total,
\* held, locked and has_activity of each client, and each action the client
\* owns, are what the rows naming that client alone give on a fresh ledger
C32_PerClientProjection ==
    (pc = "done" /\ unique) =>
        \A c \in Clients :
            LET alone == Replay(DefaultPayments, Project(feed, c)) IN
            /\ accounts[c] = alone.accounts[c]
            /\ \A t \in DOMAIN actions :
                  actions[t].cid = c
                  => (t \in DOMAIN alone.actions /\ alone.actions[t] = actions[t])

\* client 1 has sent a dispute, a resolve and a chargeback for the deposit of
\* client 0: it is Disputed by its owner alone, and client 1 is not locked
C32_Witness ==
    /\ pc = "done"
    /\ unique
    /\ feed = ScenarioForeign
    /\ actions[0] = Action(0, Deposit, 100, Disputed)
    /\ accounts[0].held = 100
    /\ accounts[1] = [total |-> 20, held |-> 0, is_locked |-> FALSE,
                      has_activity |-> TRUE]

\* C33: the account table has its full size from construction on and is
\* never resized, no call of process_transaction has indexed outside it, and
\* no call has run into the unreachable!() arm of the inner match
C33_LookupInTable ==
    /\ DOMAIN accounts = Clients
    /\ Cardinality(DOMAIN accounts) = MaxClient + 1
    /\ last.kind # "None" => IndexInTable(preAccounts, last.cid)
    /\ fault = "none"

\* the client of the largest id has gone through the inner match: its own
\* chargeback met every guard and locked the last account of the table
C33_Witness ==
    /\ Succeeded(Chargeback, Disputed)
    /\ last.cid = MaxClient
    /\ accounts[MaxClient].is_locked
    /\ fault = "none"

====
